---- MODULE Spec2Model ----
(***************************************************************************)
(* A model of vmstat_graph.py (Python 2): read_input, doit, plotit, main.   *)
(*                                                                         *)
(* Text is modelled as sequences of one-character strings, so that int(),  *)
(* str.split(',') and the suffix handling of main are computed, character  *)
(* by character, the way the interpreter computes them.  An input line is  *)
(* the tuple line.split() yields (the empty tuple for a blank line).       *)
(* Python's None is the empty tuple None and a present value x is Some(x). *)
(***************************************************************************)
EXTENDS Integers, Sequences, FiniteSets, TLC

VARIABLES HUMAN_HEADERS, calls, last, rd, mn

vars == <<HUMAN_HEADERS, calls, last, rd, mn>>

(***************************************************************************)
(* Bounds of the model.                                                    *)
(***************************************************************************)
MaxLines == 3       \* lines of an input file given to doit
MaxReadLines == 4   \* lines of an input stream given to read_input alone
MaxArgLen == 3      \* characters of the --ram argument
MaxRuns == 3        \* calls of doit in one process

(***************************************************************************)
(* Generic helpers.                                                        *)
(***************************************************************************)
None == <<>>
Some(x) == <<x>>
Range(s) == {s[i] : i \in DOMAIN s}
Front(s) == SubSeq(s, 1, Len(s) - 1)
Last(s) == s[Len(s)]
SeqsUpTo(S, n) == UNION {[1..k -> S] : k \in 0..n}

RECURSIVE FoldLeft(_, _, _)
FoldLeft(Op(_, _), acc, s) ==
    IF s = <<>> THEN acc ELSE FoldLeft(Op, Op(acc, Head(s)), Tail(s))

(***************************************************************************)
(* The tokens the program compares against.                                *)
(***************************************************************************)
procs == <<"p", "r", "o", "c", "s">>
r == <<"r">>
b == <<"b">>
swpd == <<"s", "w", "p", "d">>
free == <<"f", "r", "e", "e">>
buff == <<"b", "u", "f", "f">>
cache == <<"c", "a", "c", "h", "e">>
si == <<"s", "i">>
so == <<"s", "o">>
bi == <<"b", "i">>
bo == <<"b", "o">>
in_ == <<"i", "n">>
cs == <<"c", "s">>
us == <<"u", "s">>
sy == <<"s", "y">>
id == <<"i", "d">>
wa == <<"w", "a">>
st == <<"s", "t">>
inact == <<"i", "n", "a", "c", "t">>

(***************************************************************************)
(* int(): an optional sign followed by one or more decimal digits.         *)
(***************************************************************************)
Digits == <<"0", "1", "2", "3", "4", "5", "6", "7", "8", "9">>
IsDigit(c) == \E d \in DOMAIN Digits : Digits[d] = c
DigitVal(c) == (CHOOSE d \in DOMAIN Digits : Digits[d] = c) - 1

RECURSIVE DecVal(_)
DecVal(s) == IF s = <<>> THEN 0 ELSE 10 * DecVal(Front(s)) + DigitVal(Last(s))

PyInt(s) ==
    LET body == IF s # <<>> /\ Head(s) \in {"+", "-"} THEN Tail(s) ELSE s
        neg == s # <<>> /\ Head(s) = "-"
    IN  IF body # <<>> /\ \A i \in DOMAIN body : IsDigit(body[i])
        THEN [ok |-> TRUE, val |-> IF neg THEN -DecVal(body) ELSE DecVal(body)]
        ELSE [ok |-> FALSE, val |-> 0]

\* Python 2 '/' on two ints: floor division
PyFloorDiv(a, d) == IF d > 0 THEN a \div d ELSE (-a) \div (-d)

(***************************************************************************)
(* read_input                                                              *)
(***************************************************************************)
ReadStart == [err |-> "", headers |-> None, data |-> <<>>]

\* mutant: a later header line replaces the first one
read_line_lastheader(acc, elems) ==
    IF acc.err # "" THEN acc
    ELSE IF elems = <<>> THEN [acc EXCEPT !.err = "IndexError"]
    ELSE IF elems[1] = procs THEN acc
    ELSE IF elems[1] = r THEN [acc EXCEPT !.headers = Some(elems)]
    ELSE [acc EXCEPT !.data = Append(@, elems)]

\* the body of the loop over the lines
read_line(acc, elems) ==
    IF acc.err # "" THEN acc
    ELSE IF elems = <<>> THEN [acc EXCEPT !.err = "IndexError"]
    ELSE IF elems[1] = procs THEN acc
    ELSE IF elems[1] = r
         THEN IF acc.headers = None THEN [acc EXCEPT !.headers = Some(elems)]
              ELSE acc
    ELSE [acc EXCEPT !.data = Append(@, elems)]

read_input(fin) == FoldLeft(read_line, ReadStart, fin)

(***************************************************************************)
(* The label table.  A label is the sequence of the pieces concatenated    *)
(* into it: the original text, then every suffix appended by '+='.         *)
(***************************************************************************)
HumanHeadersInit ==
    << <<r, "Runnable processes">>, <<b, "Blocked processes">>,
       <<swpd, "Swapped memory">>, <<free, "Free memory">>,
       <<buff, "I/O Buffers">>, <<cache, "FS cache">>,
       <<si, "Swapins">>, <<so, "Swapouts">>,
       <<bi, "I/O buffers in (reads)">>, <<bo, "I/O buffers out (writes)">>,
       <<in_, "Interrupts">>, <<cs, "Context switches">>,
       <<us, "Userspace CPU %">>, <<sy, "Kernel CPU %">>,
       <<id, "Idle CPU %">>, <<wa, "I/O wait CPU %">>,
       <<st, "Stolen VM CPU %">> >>

HumanKeys == {HumanHeadersInit[i][1] : i \in DOMAIN HumanHeadersInit}

HumanText(k) ==
    HumanHeadersInit[CHOOSE i \in DOMAIN HumanHeadersInit :
                         HumanHeadersInit[i][1] = k][2]

MemHeaders == <<free, buff, cache, swpd>>

(***************************************************************************)
(* normalize                                                               *)
(***************************************************************************)
\* mutant: the percentage is clamped to 100
normalize_clamped(dataset, total) ==
    [i \in DOMAIN dataset |->
        LET p == PyFloorDiv(dataset[i] * 100, total)
        IN  IF p > 100 THEN 100 ELSE p]

normalize(dataset, total) ==
    [i \in DOMAIN dataset |-> PyFloorDiv(dataset[i] * 100, total)]

(***************************************************************************)
(* doit, step by step.  A run is a record of doit's local variables; err   *)
(* names the exception that ended it ("" while none has) and stage the     *)
(* last step that completed.  dataset0 is dataset as lines 155-156 built   *)
(* it, labels0 the label table as the call found it.                       *)
(***************************************************************************)
Stages == <<"start", "read", "timeaxis", "dataset", "annotate", "filter",
            "plotit">>
StageNo(s) == CHOOSE i \in DOMAIN Stages : Stages[i] = s
Reached(run, s) == StageNo(run.stage) >= StageNo(s)

Truthy(opt) == opt # None /\ opt[1] # <<>>
TruthyInt(opt) == opt # None /\ opt[1] # 0

NoRun ==
    [err |-> "", stage |-> "start",
     fin |-> <<>>, cols_arg |-> None, ram |-> None, interval |-> None,
     plotfile |-> None, display |-> FALSE,
     headers |-> None, data |-> <<>>, cols |-> None, timeaxis |-> <<>>,
     dataset0 |-> None, dataset |-> None, dataset_plot |-> None,
     chart |-> None,
     labels0 |-> <<>>, labels |-> <<>>]

Raise(run, e) == [run EXCEPT !.err = e]

\* lines 136-144: read the input, default the columns to the header
step_read(run) ==
    LET got == read_input(run.fin)
    IN  IF got.err # "" THEN Raise(run, got.err)
        ELSE [run EXCEPT !.stage = "read",
                         !.headers = got.headers,
                         !.data = got.data,
                         !.cols = IF Truthy(run.cols_arg) THEN run.cols_arg
                                  ELSE got.headers]

\* a datetime is the number of seconds after 2016-01-01 00:00
IndexAxis(n) == [x \in 1..n |-> [kind |-> "index", val |-> x - 1]]

\* mutant: the first timestamp is one interval after the epoch
DateAxis_from_one(n, interval) ==
    [x \in 1..n |-> [kind |-> "datetime", val |-> x * interval]]

DateAxis(n, interval) ==
    [x \in 1..n |-> [kind |-> "datetime", val |-> (x - 1) * interval]]

\* lines 148-152
step_timeaxis(run) ==
    IF run.err # "" THEN run
    ELSE IF Truthy(run.interval)
         THEN LET iv == PyInt(run.interval[1])
              IN  IF ~iv.ok THEN Raise(run, "ValueError")
                  ELSE [run EXCEPT !.stage = "timeaxis",
                                   !.timeaxis = DateAxis(Len(run.data), iv.val)]
    ELSE [run EXCEPT !.stage = "timeaxis",
                     !.timeaxis = IndexAxis(Len(run.data))]

\* int(dataline[idx]): the exception it raises, "" when it raises none
CellErr(dataline, idx) ==
    IF idx > Len(dataline) THEN "IndexError"
    ELSE IF ~PyInt(dataline[idx]).ok THEN "ValueError"
    ELSE ""

\* the first failing cell in evaluation order: header position, then row
FirstCellErr(headers, data) ==
    LET bad == {p \in (DOMAIN headers) \X (DOMAIN data) :
                    CellErr(data[p[2]], p[1]) # ""}
    IN  IF bad = {} THEN ""
        ELSE LET p == CHOOSE p \in bad : \A q \in bad :
                          \/ p[1] < q[1]
                          \/ p[1] = q[1] /\ p[2] <= q[2]
             IN  CellErr(data[p[2]], p[1])

Column(data, idx) == [i \in DOMAIN data |-> PyInt(data[i][idx]).val]

\* mutant: a repeated header name keeps its first position
HeaderIdx_first(headers, h) ==
    CHOOSE i \in DOMAIN headers :
        headers[i] = h /\ \A j \in DOMAIN headers : headers[j] = h => i <= j

\* the position whose column a dict comprehension leaves under key h
HeaderIdx(headers, h) ==
    CHOOSE i \in DOMAIN headers :
        headers[i] = h /\ \A j \in DOMAIN headers : headers[j] = h => j <= i

Materialize(headers, data) ==
    [h \in Range(headers) |-> Column(data, HeaderIdx(headers, h))]

\* lines 155-156
step_dataset(run) ==
    IF run.err # "" THEN run
    ELSE IF run.headers = None THEN Raise(run, "TypeError")
    ELSE LET e == FirstCellErr(run.headers[1], run.data)
         IN  IF e # "" THEN Raise(run, e)
             ELSE [run EXCEPT !.stage = "dataset",
                              !.dataset0 = Some(Materialize(run.headers[1], run.data)),
                              !.dataset = Some(Materialize(run.headers[1], run.data))]

\* mutant: the label is replaced, not extended
Annotate_reset(labels, header, suffix) ==
    [labels EXCEPT ![header] = <<HumanText(header), suffix>>]

\* HUMAN_HEADERS[header] += suffix
Annotate(labels, header, suffix) ==
    [labels EXCEPT ![header] = Append(@, suffix)]

\* mutant: every column of the dataset is normalized
percent_step_all(run, header) ==
    IF run.err # "" THEN run
    ELSE IF header \notin DOMAIN run.dataset[1] THEN Raise(run, "KeyError")
    ELSE [run EXCEPT
            !.dataset = Some([h \in DOMAIN run.dataset[1] |->
                                 normalize(run.dataset[1][h], run.ram[1])]),
            !.labels = Annotate(@, header, " %")]

\* lines 161-162, for one header
percent_step(run, header) ==
    IF run.err # "" THEN run
    ELSE IF header \notin DOMAIN run.dataset[1] THEN Raise(run, "KeyError")
    ELSE [run EXCEPT
            !.dataset = Some([run.dataset[1] EXCEPT
                                ![header] = normalize(@, run.ram[1])]),
            !.labels = Annotate(@, header, " %")]

\* line 166, for one header
mb_step(run, header) ==
    [run EXCEPT !.labels = Annotate(@, header, " (MB)")]

\* lines 158-166
step_annotate(run) ==
    IF run.err # "" THEN run
    ELSE LET done == IF TruthyInt(run.ram)
                     THEN FoldLeft(percent_step, run, MemHeaders)
                     ELSE FoldLeft(mb_step, run, MemHeaders)
         IN  IF done.err # "" THEN done
             ELSE [done EXCEPT !.stage = "annotate"]

\* mutant: the whole dataset is passed on
Select_all(dataset, cols) == dataset

\* {h: dataset[h] for h in cols}
Select(dataset, cols) == [h \in Range(cols) |-> dataset[h]]

\* mutant: a requested name that is no key of the dataset is skipped
step_filter_lenient(run) ==
    IF run.err # "" THEN run
    ELSE [run EXCEPT !.stage = "filter",
                     !.dataset_plot =
                         Some([h \in Range(run.cols[1]) \cap DOMAIN run.dataset[1]
                                  |-> run.dataset[1][h]])]

\* line 169
step_filter(run) ==
    IF run.err # "" THEN run
    ELSE IF \E i \in DOMAIN run.cols[1] : run.cols[1][i] \notin DOMAIN run.dataset[1]
         THEN Raise(run, "KeyError")
    ELSE [run EXCEPT !.stage = "filter",
                     !.dataset_plot = Some(Select(run.dataset[1], run.cols[1]))]

\* plotit: the chart it draws, saves and shows
plotit(dataset, timeaxis, labels, image_file, display) ==
    [series |-> {<<h, labels[h], dataset[h]>> :
                    h \in (DOMAIN dataset) \cap (DOMAIN labels)},
     timeaxis |-> timeaxis,
     timeticks |-> timeaxis[1].kind = "datetime",
     saved |-> Truthy(image_file),
     shown |-> display]

\* lines 171-172
step_plotit(run) ==
    IF run.err # "" THEN run
    ELSE IF run.timeaxis = <<>> THEN Raise(run, "IndexError")
    ELSE [run EXCEPT !.stage = "plotit",
                     !.chart = Some(plotit(run.dataset_plot[1], run.timeaxis,
                                           run.labels, run.plotfile, run.display))]

doit(labels, fin, cols, ram, interval, plotfile, display) ==
    step_plotit(step_filter(step_annotate(step_dataset(step_timeaxis(step_read(
        [NoRun EXCEPT !.fin = fin, !.cols_arg = cols, !.ram = ram,
                      !.interval = interval, !.plotfile = plotfile,
                      !.display = display, !.labels0 = labels,
                      !.labels = labels]))))))

(***************************************************************************)
(* main                                                                    *)
(***************************************************************************)
\* str.split(','), one character at a time
split_char(acc, c) ==
    IF c = "," THEN Append(acc, <<>>)
    ELSE [acc EXCEPT ![Len(acc)] = Append(@, c)]

Split(s) == FoldLeft(split_char, <<<<>>>>, s)

KiB == 1024

RECURSIVE Pow(_, _)
Pow(x, e) == IF e = 0 THEN 1 ELSE x * Pow(x, e - 1)

\* A size in bytes is kept as n * 1024^e (Python's integers do not overflow;
\* the products n * 1024 * 1024 * 1024 are kept exact in this form).
Bytes(n, e) == [n |-> n, e |-> e]
Ok(n, e) == [kind |-> "ok", val |-> Bytes(n, e)]
Fail(exc) == [kind |-> exc, val |-> Bytes(0, 0)]

\* lines 219-226: the unit letter, then int() of what precedes the last
\* character (in every branch, the fallback included)
ParseSuffixed(s) ==
    LET n == PyInt(Front(s))
        c == Last(s)
    IN  IF ~n.ok THEN Fail("ValueError")
        ELSE IF c \in {"K", "k"} THEN Ok(n.val, 1)
        ELSE IF c \in {"M", "m"} THEN Ok(n.val, 2)
        ELSE IF c \in {"G", "g"} THEN Ok(n.val, 3)
        ELSE Ok(n.val, 0)

\* lines 213-227: the value of ram in bytes, or the exception raised
ParseRam(s) ==
    LET whole == PyInt(s)
    IN  IF whole.ok THEN Ok(whole.val, 0)
        ELSE LET t == IF Last(s) \in {"B", "o"} THEN Front(s) ELSE s
             IN  IF t = <<>> THEN Fail("IndexError")
                 ELSE ParseSuffixed(t)

\* lines 231-232: if ram: ram /= 1024
ToKiB(v) ==
    IF v.n = 0 THEN 0
    ELSE IF v.e = 0 THEN PyFloorDiv(v.n, KiB)
    ELSE v.n * Pow(KiB, v.e - 1)

NoMain ==
    [started |-> FALSE, ram_arg |-> None, parsed |-> Fail("none"),
     ram |-> None, printed |-> <<>>, exc |-> "", status |-> 0,
     doit_calls |-> 0]

\* main up to line 232: the ram argument parsed and converted
main_ram(ram_arg) ==
    LET base == [NoMain EXCEPT !.started = TRUE, !.ram_arg = ram_arg]
    IN  IF ~Truthy(ram_arg) THEN base
        ELSE LET p == ParseRam(ram_arg[1])
             IN  IF p.kind = "ok"
                 THEN [base EXCEPT !.parsed = p, !.ram = Some(ToKiB(p.val))]
                 ELSE IF p.kind = "ValueError"
                 THEN [base EXCEPT !.parsed = p,
                                   !.printed = <<"Cannot understand RAM size",
                                                 "usage", "None">>,
                                   !.status = 1]
                 ELSE [base EXCEPT !.parsed = p, !.exc = p.kind, !.status = 1]

(***************************************************************************)
(* The inputs.                                                             *)
(***************************************************************************)
Banner == <<procs, <<"-", "-">>>>
HdrMem == <<r, swpd, free, buff, cache>>
HdrAct == <<r, swpd, free, inact>>
HdrDup == <<r, b, r>>
HdrRB == <<r, b>>
RowA == << <<"2">>, <<"-", "5">>, <<"2", "5", "0">>, <<"7">>, <<"1", "2">> >>
RowB == << <<"1">>, <<"3">>, <<"5">>, <<"4">>, <<"x">> >>
RowShort == << <<"1">>, <<"2">> >>
Blank == <<>>

svg == <<"a", ".", "s", "v", "g">>
sixty == <<"6", "0">>

LineKinds == {Banner, HdrMem, HdrAct, HdrDup, RowA, RowB, RowShort}
ColsKinds == {None, Some(<<r, free>>), Some(<<b, r, b>>)}
RamKinds == {None, Some(0), Some(7)}
IntervalKinds == {None, Some(sixty), Some(<<"x">>)}
OutKinds == {<<Some(svg), FALSE>>, <<None, TRUE>>}

ReadKinds == {Banner, HdrMem, HdrRB, RowA, RowShort, Blank}

RamChars == {"0", "1", "2", "K", "k", "M", "m", "G", "g", "B", "o", "x"}
MainFiles == {<<Banner, HdrMem, RowA>>, <<HdrMem, RowB>>}
MainCols == {None, Some(<<"r", ",", "f", "r", "e", "e">>)}

LabelFiles ==
    {<<Banner, HdrMem, RowA>>, <<HdrAct, RowA>>, <<HdrDup, RowA>>,
     <<HdrMem, RowB>>}
LabelCols == {None, Some(<<r, b>>)}
LabelRams == {None, Some(7)}

(***************************************************************************)
(* The state machine.                                                      *)
(***************************************************************************)
NoRead == [done |-> FALSE, fin |-> <<>>, res |-> ReadStart]

Init ==
    /\ HUMAN_HEADERS = [k \in HumanKeys |-> <<HumanText(k)>>]
    /\ calls = 0
    /\ last = NoRun
    /\ rd = NoRead
    /\ mn = NoMain

\* one call of doit
Call(fin, cols, ram, interval, plotfile, display) ==
    LET run == doit(HUMAN_HEADERS, fin, cols, ram, interval, plotfile, display)
    IN  /\ last' = run
        /\ HUMAN_HEADERS' = run.labels
        /\ calls' = calls + 1

\* doit, called once on any of the inputs
Doit ==
    /\ calls = 0
    /\ \E fin \in SeqsUpTo(LineKinds, MaxLines), cols \in ColsKinds,
          ram \in RamKinds, interval \in IntervalKinds, out \in OutKinds :
            Call(fin, cols, ram, interval, out[1], out[2])
    /\ UNCHANGED <<rd, mn>>

\* doit, called again and again in one process
DoitAgain ==
    /\ calls < MaxRuns
    /\ \E fin \in LabelFiles, cols \in LabelCols, ram \in LabelRams :
            Call(fin, cols, ram, None, Some(svg), FALSE)
    /\ UNCHANGED <<rd, mn>>

\* read_input on any stream of lines
ReadInput ==
    /\ ~rd.done
    /\ \E fin \in SeqsUpTo(ReadKinds, MaxReadLines) :
            rd' = [done |-> TRUE, fin |-> fin, res |-> read_input(fin)]
    /\ UNCHANGED <<HUMAN_HEADERS, calls, last, mn>>

\* main, run once with any --ram argument
Main ==
    /\ ~mn.started
    /\ \E ram_arg \in {None} \cup {Some(s) : s \in SeqsUpTo(RamChars, MaxArgLen)},
          fin \in MainFiles, cols_arg \in MainCols :
            LET m == main_ram(ram_arg)
                cols == IF Truthy(cols_arg) THEN Some(Split(cols_arg[1])) ELSE None
            IN  IF m.status # 0
                THEN /\ mn' = m
                     /\ UNCHANGED <<HUMAN_HEADERS, calls, last>>
                ELSE LET run == doit(HUMAN_HEADERS, fin, cols, m.ram, None,
                                     Some(svg), FALSE)
                     IN  /\ mn' = [m EXCEPT !.doit_calls = 1,
                                            !.exc = run.err,
                                            !.status = IF run.err # "" THEN 1 ELSE 0]
                         /\ last' = run
                         /\ HUMAN_HEADERS' = run.labels
                         /\ calls' = calls + 1
    /\ UNCHANGED rd

Next == Doit
Spec == Init /\ [][Next]_vars

NextRead == ReadInput
SpecRead == Init /\ [][NextRead]_vars

NextLabels == DoitAgain
SpecLabels == Init /\ [][NextLabels]_vars

NextMain == Main
SpecMain == Init /\ [][NextMain]_vars

(***************************************************************************)
(* C1: read_input                                                          *)
(***************************************************************************)
FirstTok(line) == line[1]
IsBanner(line) == FirstTok(line) = procs
IsHeader(line) == FirstTok(line) = r
IsRow(line) == ~IsBanner(line) /\ ~IsHeader(line)
NotBanner(line) == ~IsBanner(line)
NonBlank(fin) == \A i \in DOMAIN fin : fin[i] # <<>>
HeaderLines(fin) == {i \in DOMAIN fin : IsHeader(fin[i])}
FirstHeader(fin) == CHOOSE i \in HeaderLines(fin) : \A j \in HeaderLines(fin) : i <= j

\* C1 as claimed: banner lines are skipped, the first line starting with
\* 'r' is the header, and the data rows are all the lines after that header
\* line that are not banners, in input order.
C1_Original ==
    (rd.done /\ NonBlank(rd.fin) /\ HeaderLines(rd.fin) # {}) =>
        /\ rd.res.err = ""
        /\ rd.res.headers = Some(rd.fin[FirstHeader(rd.fin)])
        /\ rd.res.data =
             SelectSeq(SubSeq(rd.fin, FirstHeader(rd.fin) + 1, Len(rd.fin)),
                       NotBanner)

\* C1 amended: banner lines are skipped; the first line starting with 'r' is
\* the header (None when there is none) and every later line starting with
\* 'r' is dropped; the data rows are all the lines starting with neither
\* 'procs' nor 'r', before or after the header, in input order.
C1_Amended ==
    (rd.done /\ NonBlank(rd.fin)) =>
        /\ rd.res.err = ""
        /\ rd.res.headers = IF HeaderLines(rd.fin) = {} THEN None
                            ELSE Some(rd.fin[FirstHeader(rd.fin)])
        /\ rd.res.data = SelectSeq(rd.fin, IsRow)
        /\ Len(rd.res.data) = Cardinality({i \in DOMAIN rd.fin : IsRow(rd.fin[i])})

\* a row before the header, a header, a row and a second, different header
C1_Witness ==
    /\ rd.done /\ NonBlank(rd.fin) /\ Len(rd.fin) = 4
    /\ IsRow(rd.fin[1]) /\ IsHeader(rd.fin[2]) /\ IsRow(rd.fin[3])
    /\ IsHeader(rd.fin[4]) /\ rd.fin[4] # rd.fin[2]
    /\ Len(rd.res.data) = 2

(***************************************************************************)
(* C2, C3, C8: the dataset                                                 *)
(***************************************************************************)
Hdrs == last.headers[1]
NRows == Len(last.data)
DataSet == last.dataset[1]
DataSet0 == last.dataset0[1]
MemNames == Range(MemHeaders)
RawCell(i, idx) == PyInt(last.data[i][idx]).val
Positions(h) == {idx \in DOMAIN Hdrs : Hdrs[idx] = h}
LastPosition(h) == CHOOSE idx \in Positions(h) : \A j \in Positions(h) : j <= idx
RowsWellFormed ==
    \A i \in DOMAIN last.data :
        /\ Len(last.data[i]) >= Len(Hdrs)
        /\ \A idx \in DOMAIN Hdrs : PyInt(last.data[i][idx]).ok

\* C2 as claimed: the dataset maps the header name of every position idx to
\* the N integers of token idx of the rows; with no rows it is built and
\* every column is empty.
C2_Original ==
    (calls > 0 /\ Reached(last, "timeaxis") /\ last.headers # None
               /\ RowsWellFormed) =>
        /\ Reached(last, "dataset")
        /\ \A idx \in DOMAIN Hdrs :
              /\ Hdrs[idx] \in DOMAIN DataSet0
              /\ Len(DataSet0[Hdrs[idx]]) = NRows
              /\ \A i \in 1..NRows : DataSet0[Hdrs[idx]][i] = RawCell(i, idx)

\* C2 amended: the dataset maps every header name to the N integers of the
\* token at the LAST position at which the name stands in the header (its
\* only position when the names are distinct); with no rows it is built and
\* every column is empty.
C2_Amended ==
    (calls > 0 /\ Reached(last, "timeaxis") /\ last.headers # None
               /\ RowsWellFormed) =>
        /\ Reached(last, "dataset")
        /\ DOMAIN DataSet0 = Range(Hdrs)
        /\ \A h \in Range(Hdrs) :
              /\ Len(DataSet0[h]) = NRows
              /\ \A i \in 1..NRows : DataSet0[h][i] = RawCell(i, LastPosition(h))
              /\ NRows = 0 => DataSet0[h] = <<>>

\* two rows under a header that repeats a name
C2_Witness ==
    /\ calls > 0 /\ Reached(last, "dataset") /\ NRows = 2
    /\ \E h \in Range(Hdrs) : Cardinality(Positions(h)) = 2
    /\ DataSet0[r] = <<250, 250>>

\* C3: with a reference size R every value V of 'free', 'buff', 'cache' and
\* 'swpd' becomes floor(V*100/R), never clamped to 0..100.
C3_Normalized ==
    (calls > 0 /\ Reached(last, "annotate") /\ TruthyInt(last.ram)) =>
        \A h \in MemNames : \A i \in 1..NRows :
            LET R == last.ram[1]
                V == RawCell(i, LastPosition(h))
                q == DataSet[h][i]
            IN  /\ Len(DataSet[h]) = NRows
                /\ R > 0 => (q * R <= V * 100 /\ V * 100 < (q + 1) * R)
                /\ R < 0 => (q * R >= V * 100 /\ V * 100 > (q + 1) * R)

\* a normalized row with a value above 100 and a sum above 100
C3_Witness ==
    /\ calls > 0 /\ last.stage = "plotit" /\ TruthyInt(last.ram) /\ NRows >= 1
    /\ DataSet[free][1] > 100
    /\ DataSet[swpd][1] < 0
    /\ DataSet[free][1] + DataSet[buff][1] + DataSet[cache][1]
         + DataSet[swpd][1] > 100

\* C8: without a reference size every column holds the raw integers; with
\* one, every column other than the four memory columns does.
C8_Frame ==
    (calls > 0 /\ Reached(last, "dataset")) =>
        \A h \in DOMAIN DataSet :
            (~TruthyInt(last.ram) \/ h \notin MemNames) =>
                /\ Len(DataSet[h]) = NRows
                /\ \A i \in 1..NRows : DataSet[h][i] = RawCell(i, LastPosition(h))

\* a normalized run whose column 'r' still holds the raw values
C8_Witness ==
    /\ calls > 0 /\ last.stage = "plotit" /\ TruthyInt(last.ram) /\ NRows = 2
    /\ DataSet[r] = <<2, 2>>
    /\ DataSet[free] # <<250, 250>>

(***************************************************************************)
(* C5, C6, C7: failure, selection, time axis                               *)
(***************************************************************************)
ShortRow == \E i \in DOMAIN last.data : Len(last.data[i]) < Len(Hdrs)
BadCell ==
    \E i \in DOMAIN last.data : \E j \in DOMAIN last.data[i] :
        ~PyInt(last.data[i][j]).ok
BadHeaderCell ==
    \E i \in DOMAIN last.data : \E j \in DOMAIN last.data[i] :
        j <= Len(Hdrs) /\ ~PyInt(last.data[i][j]).ok
UnknownColumn ==
    Truthy(last.cols_arg) /\ \E k \in DOMAIN last.cols_arg[1] :
        last.cols_arg[1][k] \notin Range(Hdrs)
Plotted == last.chart # None
Failed == last.err # "" /\ last.chart = None /\ last.stage # "plotit"

\* C5 as claimed: a row shorter than the header, a cell that is no integer
\* or a requested name that is no header name ends doit with an error and
\* without a chart; a chart means none of the three.
C5_Original ==
    (calls > 0 /\ Reached(last, "read") /\ last.headers # None) =>
        /\ (ShortRow \/ BadCell \/ UnknownColumn) => Failed
        /\ Plotted => (last.err = "" /\ ~ShortRow /\ ~BadCell /\ ~UnknownColumn)

\* C5 amended: a row shorter than the header, a cell AT A HEADER POSITION
\* (one of the first H tokens of a row, H the number of header names) that
\* is no integer, or a requested name that is no header name ends doit with
\* an error and without a chart; a chart means none of the three.
C5_Amended ==
    (calls > 0 /\ Reached(last, "read") /\ last.headers # None) =>
        /\ (ShortRow \/ BadHeaderCell \/ UnknownColumn) => Failed
        /\ Plotted => (last.err = "" /\ ~ShortRow /\ ~BadHeaderCell
                                     /\ ~UnknownColumn)

\* sound rows, and a requested name that is no header name: no chart
C5_Witness ==
    /\ calls > 0 /\ last.headers # None /\ NRows = 2
    /\ ~ShortRow /\ ~BadCell /\ UnknownColumn
    /\ last.stage = "annotate" /\ last.err = "KeyError" /\ ~Plotted

\* C6: the mapping passed to the renderer has exactly the requested names
\* as keys (the header names when none is requested), each with the
\* sequence the dataset holds for it.
C6_Selection ==
    (calls > 0 /\ Reached(last, "filter")) =>
        LET passed == last.dataset_plot[1]
        IN  /\ DOMAIN passed = IF Truthy(last.cols_arg)
                               THEN Range(last.cols_arg[1])
                               ELSE Range(Hdrs)
            /\ \A h \in DOMAIN passed : passed[h] = DataSet[h]

\* two requested columns out of five, one of them normalized
C6_Witness ==
    /\ calls > 0 /\ last.stage = "plotit" /\ TruthyInt(last.ram) /\ NRows = 2
    /\ last.cols_arg = Some(<<r, free>>)
    /\ Cardinality(Range(Hdrs)) = 5
    /\ DOMAIN last.dataset_plot[1] = {r, free}
    /\ last.dataset_plot[1][free] = <<3571, 3571>>

\* C7: the axis has one entry per data row; with an interval of s seconds
\* entry i is the epoch plus i*s seconds, without one it is the index i.
C7_TimeAxis ==
    (calls > 0 /\ Reached(last, "timeaxis")) =>
        /\ Len(last.timeaxis) = NRows
        /\ \A i \in 0..(NRows - 1) :
              LET t == last.timeaxis[i + 1]
              IN  /\ Truthy(last.interval) =>
                        /\ t.kind = "datetime"
                        /\ t.val = i * PyInt(last.interval[1]).val
                        /\ last.interval[1] = sixty => t.val = i * 60
                  /\ ~Truthy(last.interval) => (t.kind = "index" /\ t.val = i)

\* interval 60 and two rows: the epoch and the epoch plus 60 s, plotted
C7_Witness ==
    /\ calls > 0 /\ last.stage = "plotit" /\ last.interval = Some(sixty)
    /\ NRows = 2
    /\ last.timeaxis = <<[kind |-> "datetime", val |-> 0],
                         [kind |-> "datetime", val |-> 60]>>
    /\ last.chart[1].timeticks

(***************************************************************************)
(* C10: the label table                                                    *)
(***************************************************************************)
Suffix == IF TruthyInt(last.ram) THEN " %" ELSE " (MB)"
IsSuffix(x) == x \in {" %", " (MB)"}
AnnotationReached == calls > 0 /\ Reached(last, "dataset")
Annotated == calls > 0 /\ HUMAN_HEADERS # last.labels0

\* C10 as claimed: a run that reaches the annotation step (here: one that
\* appended a suffix at all) appends one unit suffix to each of the four
\* memory labels and changes no other label.
C10_Original ==
    Annotated =>
        /\ \A h \in MemNames :
              HUMAN_HEADERS[h] = Append(last.labels0[h], Suffix)
        /\ \A k \in HumanKeys \ MemNames : HUMAN_HEADERS[k] = last.labels0[k]

\* C10 amended: a run that reaches the annotation step appends one unit
\* suffix to the labels of 'free', 'buff', 'cache', 'swpd' in this order;
\* with a reference size it stops at the first of them that is no header
\* name (the run ends with KeyError there, the labels before it keeping
\* their suffix); without one it extends all four.  No other label changes,
\* a run that does not reach the step changes nothing, and a label is
\* always its original text followed by the suffixes appended so far.
C10_Amended ==
    /\ \A k \in HumanKeys \ MemNames : HUMAN_HEADERS[k] = <<HumanText(k)>>
    /\ \A h \in MemNames :
          /\ HUMAN_HEADERS[h][1] = HumanText(h)
          /\ Len(HUMAN_HEADERS[h]) <= calls + 1
          /\ \A n \in 2..Len(HUMAN_HEADERS[h]) : IsSuffix(HUMAN_HEADERS[h][n])
    /\ (calls > 0 /\ ~Reached(last, "dataset")) => HUMAN_HEADERS = last.labels0
    /\ AnnotationReached =>
          \A j \in DOMAIN MemHeaders :
              LET h == MemHeaders[j]
                  present == \A m \in 1..j : MemHeaders[m] \in Range(Hdrs)
              IN  HUMAN_HEADERS[h] =
                      IF ~TruthyInt(last.ram) \/ present
                      THEN Append(last.labels0[h], Suffix)
                      ELSE last.labels0[h]

\* three runs: all four in percent, 'free' alone in percent, all four in MB
C10_Witness ==
    /\ calls = 3
    /\ HUMAN_HEADERS[free] = <<"Free memory", " %", " %", " (MB)">>
    /\ HUMAN_HEADERS[buff] = <<"I/O Buffers", " %", " (MB)">>
    /\ HUMAN_HEADERS[swpd] = <<"Swapped memory", " %", " (MB)">>

(***************************************************************************)
(* C4, C9: main                                                            *)
(***************************************************************************)
AllDigits(t) == t # <<>> /\ \A i \in DOMAIN t : IsDigit(t[i])
UnitExp(c) ==
    IF c \in {"K", "k"} THEN 1 ELSE IF c \in {"M", "m"} THEN 2
    ELSE IF c \in {"G", "g"} THEN 3 ELSE 0

\* what C4 says of an argument: n, n and a unit letter, either of them
\* followed by 'B' or 'o'; anything else fails
Claimed(s) ==
    LET t == IF Len(s) >= 2 /\ Last(s) \in {"B", "o"} THEN Front(s) ELSE s
    IN  IF AllDigits(t) THEN Ok(DecVal(t), 0)
        ELSE IF Len(t) >= 2 /\ AllDigits(Front(t)) /\ UnitExp(Last(t)) > 0
        THEN Ok(DecVal(Front(t)), UnitExp(Last(t)))
        ELSE Fail("ValueError")

\* C4 as claimed: 'n' is n bytes, 'nK' n*1024, 'nM' n*1024^2, 'nG' n*1024^3,
\* a trailing 'B' or 'o' changes nothing, and any other string fails.
C4_Claim ==
    (mn.started /\ Truthy(mn.ram_arg)) =>
        LET want == Claimed(mn.ram_arg[1])
        IN  IF want.kind = "ok" THEN mn.parsed = want
            ELSE mn.parsed.kind # "ok"

\* C9 as claimed: an argument that cannot be parsed prints the message and
\* the usage help, exits with status 1 and never calls doit; every other
\* argument leads to exactly one call of doit.
C9_Claim ==
    mn.started =>
        IF mn.parsed.kind \in {"ok", "none"}
        THEN mn.doit_calls = 1 /\ calls = 1
        ELSE /\ Len(mn.printed) >= 2
             /\ mn.printed[1] = "Cannot understand RAM size"
             /\ mn.printed[2] = "usage"
             /\ mn.status = 1
             /\ mn.doit_calls = 0 /\ calls = 0
             /\ last = NoRun
             /\ HUMAN_HEADERS = [k \in HumanKeys |-> <<HumanText(k)>>]

====
